---- MODULE Spec2Model ----
(***************************************************************************)
(* Model of counter-interact.js: the configuration validation at module    *)
(* load, main()'s precondition checks, the attempt loop with its           *)
(* statistics, the two sleeps, the final report reads and the process exit *)
(* code.  The chain (counter value, this wallet's transactions) is the     *)
(* environment the script talks to through the RPC endpoint.               *)
(***************************************************************************)
EXTENDS Integers, Sequences, FiniteSets, TLC

\* ---------------------------------------------------------------- bounds
\* INCREMENT_COUNT is 50 in the source (line 19); the model runs the same
\* loop with a small number of attempts.
INCREMENT_COUNT == 3
\* Number of changes other parties make to the counter during the run.
MaxExternal == 1
\* Math.random() is k / RandDenom for an integer 0 <= k < RandDenom.
RandDenom == 4096

\* ------------------------------------------------------ program constants
MIN_DELAY == 1000
MAX_DELAY == 3000
RETRY_DELAY == 5000

\* ------------------------------------------------------------ input sets
EnvValues == {"absent", "empty", "present"}
BalanceValues == {0, 7}
StartCounts == {2}
GasUsedValues == {21000}
None == << >>
Some(v) == << v >>
ReceiptGasPrices == {None, Some(0), Some(2)}
TxGasPrices == {1}
RandomValues == {0, RandDenom \div 2, RandDenom - 1}
Attempts == 1 .. INCREMENT_COUNT
NoTimer == [kind |-> "none", ms |-> 0]

VARIABLES
  pc,              \* position of the script
  PRIVATE_KEY,     \* process.env.PRIVATE_KEY
  COUNTER_ADDRESS, \* process.env.COUNTER_ADDRESS
  provider,        \* "absent" | "idle" (created) | "used" (a request was sent)
  exitCode,        \* None while running, Some(code) once the process ended
  fatal,           \* which fatal path ended the process ("none" if none)
  balance,         \* const balance (line 61), None before the read
  initialCount,    \* const initialCount (line 70)
  finalCount,      \* const finalCount (line 137)
  i,               \* loop index
  successCount, failCount, totalGasUsed, totalGasCost,
  tx,              \* const tx of the current attempt: None or Some(tx.gasPrice)
  delay,           \* const delay of line 115 (the announced wait)
  timer,           \* the pending setTimeout, NoTimer if none
  count,           \* the counter value on chain
  txs,             \* chain status of the transaction of each attempt
  external,        \* number of changes made by other parties
  outcome,         \* per attempt: "none", "success" (line 111), "fail" (line 123)
  sleeps,          \* per attempt: kinds of the sleeps completed for it
  atStart,         \* gas totals when the loop index took its current value
  receipt,         \* receipt, gasUsed and gasCost of the current attempt
                   \* (lines 95-100), None before tx.wait() returned
  counted,         \* gas and cost of the attempts that reached line 111
  avgGas,          \* the reported 'Avg Gas Per Tx' (line 150)
  avgCost          \* the reported 'Avg Cost Per Tx' (line 151), in wei

vars == << pc, PRIVATE_KEY, COUNTER_ADDRESS, provider, exitCode, fatal,
           balance, initialCount, finalCount, i, successCount, failCount,
           totalGasUsed, totalGasCost, tx, delay, timer, count, txs,
           external, outcome, sleeps, atStart, receipt, counted,
           avgGas, avgCost >>

chainVars == << count, txs, external >>
statVars == << successCount, failCount, totalGasUsed, totalGasCost >>
envVars == << PRIVATE_KEY, COUNTER_ADDRESS >>
histVars == << outcome, sleeps, atStart, counted >>
reportVars == << avgGas, avgCost >>

\* ------------------------------------------------------------- helpers
\* v === undefined instead of !v: an empty string passes
FalsyUndefinedOnly(v) == v = "absent"

\* JavaScript !v for an environment string: undefined and "" are falsy.
Falsy(v) == v \in {"absent", "empty"}

\* balance < 0n instead of balance === 0n
ZeroBalanceNegative(b) == b < 0

\* balance === 0n
ZeroBalance(b) == b = 0

\* Math.round in place of Math.floor
RandomDelayRounded(r) ==
  ((2 * r * (MAX_DELAY - MIN_DELAY + 1) + RandDenom) \div (2 * RandDenom)) + MIN_DELAY

\* Math.floor(Math.random() * (MAX_DELAY - MIN_DELAY + 1)) + MIN_DELAY,
\* with Math.random() = r / RandDenom.
RandomDelayMs(r) == ((r * (MAX_DELAY - MIN_DELAY + 1)) \div RandDenom) + MIN_DELAY

\* receipt.gasPrice || tx.gasPrice : a missing price and 0n are both falsy.
GasPrice(receiptPrice, txPrice) ==
  IF receiptPrice = None \/ receiptPrice = Some(0) THEN txPrice ELSE receiptPrice[1]

\* total -= amount in place of total += amount
AccumulateSubtract(total, amount) == total - amount

\* lines 102-103: total += amount
Accumulate(total, amount) == total + amount

\* dividing by the number of attempts instead of the number of successes
AveragePerAttempt(total, n) == IF n > 0 THEN total \div INCREMENT_COUNT ELSE 0

\* lines 150-151: successCount > 0 ? total / BigInt(successCount) : 0
Average(total, n) == IF n > 0 THEN total \div n ELSE 0

\* a wait that returns the receipt of any mined transaction
WaitResolvesWhenMined(status) == status \in {"confirmed", "reverted"}

\* line 95: tx.wait() returns a receipt only for a transaction that was
\* mined and took effect
WaitResolves(status) == status = "confirmed"

\* the guard of line 114
NotLast(k) == k < INCREMENT_COUNT

\* transactions of this run that are submitted and not yet mined
Outstanding == {a \in Attempts : txs[a] = "pending"}
\* transactions of this run that were mined successfully
Confirmed == {a \in Attempts : txs[a] = "confirmed"}
Submitted == {a \in Attempts : txs[a] # "none"}

Init ==
  /\ pc = "start"
  /\ PRIVATE_KEY \in EnvValues
  /\ COUNTER_ADDRESS \in EnvValues
  /\ provider = "absent"
  /\ exitCode = None
  /\ fatal = "none"
  /\ balance = None
  /\ initialCount = None
  /\ finalCount = None
  /\ i = 0
  /\ successCount = 0
  /\ failCount = 0
  /\ totalGasUsed = 0
  /\ totalGasCost = 0
  /\ tx = None
  /\ delay = None
  /\ timer = NoTimer
  /\ count \in StartCounts
  /\ txs = [a \in Attempts |-> "none"]
  /\ external = 0
  /\ outcome = [a \in Attempts |-> "none"]
  /\ sleeps = [a \in Attempts |-> << >>]
  /\ atStart = [gasUsed |-> 0, gasCost |-> 0]
  /\ receipt = None
  /\ counted = [gasUsed |-> 0, gasCost |-> 0]
  /\ avgGas = None
  /\ avgCost = None

\* process.exit(1) after a console.error naming the reason
Exit1(reason) ==
  /\ pc' = "exited"
  /\ exitCode' = Some(1)
  /\ fatal' = reason

\* a top-level handler that logs the error and lets the process end normally
MainCatchExitZero(site) ==
  /\ pc' = "exited"
  /\ exitCode' = Some(0)
  /\ fatal' = site

\* lines 162-165: main().catch logs the error and calls process.exit(1)
MainCatch(site) == Exit1(site)

\* lines 24-38: validation, then provider, wallet and contract
ValidateConfig ==
  /\ pc = "start"
  /\ IF Falsy(PRIVATE_KEY)
       THEN Exit1("PRIVATE_KEY") /\ UNCHANGED provider
       ELSE IF Falsy(COUNTER_ADDRESS)
         THEN Exit1("COUNTER_ADDRESS") /\ UNCHANGED provider
         ELSE /\ provider' = "idle"
              /\ pc' = "getBalance"
              /\ UNCHANGED << exitCode, fatal >>
  /\ UNCHANGED << envVars, balance, initialCount, finalCount, i, statVars,
                  tx, receipt, delay, timer, chainVars, histVars, reportVars >>

\* lines 61-67: the balance read and the balance precondition; a rejected
\* read escapes main() and reaches main().catch (lines 162-165)
GetBalance ==
  /\ pc = "getBalance"
  /\ provider' = "used"
  /\ \/ \E b \in BalanceValues :
          /\ balance' = Some(b)
          /\ IF ZeroBalance(b)
               THEN Exit1("balance")
               ELSE pc' = "initialCount" /\ UNCHANGED << exitCode, fatal >>
     \/ MainCatch("getBalance") /\ UNCHANGED balance
  /\ UNCHANGED << envVars, initialCount, finalCount, i, statVars,
                  tx, receipt, delay, timer, chainVars, histVars, reportVars >>

\* lines 70-84: the initial counter read, the statistics and the loop start
GetInitialCount ==
  /\ pc = "initialCount"
  /\ \/ /\ initialCount' = Some(count)
        /\ i' = 1
        /\ pc' = "loop"
        /\ UNCHANGED << exitCode, fatal >>
     \/ MainCatch("initialCount") /\ UNCHANGED << initialCount, i >>
  /\ UNCHANGED << envVars, provider, balance, finalCount, statVars,
                  tx, receipt, delay, timer, chainVars, histVars, reportVars >>

\* i <= INCREMENT_COUNT + 1: one iteration too many
LoopContinuesOneMore(k) == k <= INCREMENT_COUNT + 1

\* the loop condition of line 84
LoopContinues(k) == k <= INCREMENT_COUNT

\* line 84: the loop test
LoopTest ==
  /\ pc = "loop"
  /\ IF LoopContinues(i)
       THEN pc' = "getCount"
       ELSE pc' = "finalCount"
  /\ UNCHANGED << envVars, provider, exitCode, fatal, balance, initialCount,
                  finalCount, i, statVars, tx, receipt, delay, timer,
                  chainVars, histVars, reportVars >>

\* a catch block that forgets failCount++
CatchNoCount ==
  /\ outcome' = [outcome EXCEPT ![i] = "fail"]
  /\ timer' = [kind |-> "backoff", ms |-> RETRY_DELAY]
  /\ pc' = "backoff"
  /\ UNCHANGED << exitCode, fatal, successCount, failCount, i, sleeps >>

\* a catch block that rethrows: the error reaches main().catch
CatchRethrow ==
  /\ Exit1("attempt")
  /\ UNCHANGED << successCount, failCount, i, sleeps, outcome, timer >>

\* a catch block that leaves the loop (break)
CatchBreak ==
  /\ failCount' = failCount + 1
  /\ outcome' = [outcome EXCEPT ![i] = "fail"]
  /\ pc' = "finalCount"
  /\ UNCHANGED << exitCode, fatal, successCount, i, sleeps, timer >>

\* a catch block that skips the backoff after the last attempt
CatchBackoffUnlessLast ==
  /\ failCount' = failCount + 1
  /\ outcome' = [outcome EXCEPT ![i] = "fail"]
  /\ IF i < INCREMENT_COUNT
       THEN /\ timer' = [kind |-> "backoff", ms |-> RETRY_DELAY]
            /\ pc' = "backoff"
            /\ UNCHANGED i
       ELSE /\ i' = i + 1
            /\ pc' = "loop"
            /\ UNCHANGED timer
  /\ UNCHANGED << exitCode, fatal, successCount, sleeps >>

\* lines 121-127: the catch block up to its await
Catch ==
  /\ failCount' = failCount + 1
  /\ outcome' = [outcome EXCEPT ![i] = "fail"]
  /\ timer' = [kind |-> "backoff", ms |-> RETRY_DELAY]
  /\ pc' = "backoff"
  /\ UNCHANGED << exitCode, fatal, successCount, i, sleeps >>

\* line 87: the counter read that opens an attempt
GetCurrentCount ==
  /\ pc = "getCount"
  /\ \/ /\ pc' = "increment"
        /\ UNCHANGED << exitCode, fatal, successCount, failCount, i, timer,
                        outcome, sleeps >>
     \/ Catch
  /\ UNCHANGED << envVars, provider, balance, initialCount, finalCount,
                  totalGasUsed, totalGasCost, tx, receipt, delay, chainVars,
                  atStart, counted, reportVars >>

\* line 92: contract.increment() resolves once the transaction is broadcast;
\* a rejected call has broadcast nothing
Increment ==
  /\ pc = "increment"
  /\ \/ /\ \E p \in TxGasPrices : tx' = Some(p)
        /\ txs' = [txs EXCEPT ![i] = "pending"]
        /\ pc' = "wait"
        /\ UNCHANGED << exitCode, fatal, successCount, failCount, i, timer,
                        outcome, sleeps >>
     \/ Catch /\ UNCHANGED << tx, txs >>
  /\ UNCHANGED << envVars, provider, balance, initialCount, finalCount,
                  totalGasUsed, totalGasCost, receipt, delay, count, external,
                  atStart, counted, reportVars >>

\* lines 95-103: tx.wait() and the gas statistics.  wait() returns the
\* receipt of a mined successful transaction, rejects for a reverted one,
\* and rejects on a network error whatever the state of the transaction.
Wait ==
  /\ pc = "wait"
  /\ \/ /\ WaitResolves(txs[i])
        /\ \E gasUsed \in GasUsedValues, rp \in ReceiptGasPrices :
             LET gasCost == gasUsed * GasPrice(rp, tx[1])
             IN /\ receipt' = Some([gasUsed |-> gasUsed, gasPrice |-> rp,
                                    gasCost |-> gasCost])
                /\ totalGasUsed' = Accumulate(totalGasUsed, gasUsed)
                /\ totalGasCost' = Accumulate(totalGasCost, gasCost)
        /\ pc' = "newCount"
        /\ UNCHANGED << exitCode, fatal, successCount, failCount, i, timer,
                        outcome, sleeps >>
     \/ /\ txs[i] = "reverted"
        /\ Catch
        /\ UNCHANGED << totalGasUsed, totalGasCost, receipt >>
     \/ /\ Catch
        /\ UNCHANGED << totalGasUsed, totalGasCost, receipt >>
  /\ UNCHANGED << envVars, provider, balance, initialCount, finalCount,
                  tx, delay, chainVars, atStart, counted, reportVars >>

\* lines 106-117: the counter read after confirmation, successCount++ and
\* the start of the inter-attempt delay.  Line 115 draws the announced
\* delay; randomDelay() (lines 41-44) draws the duration of its own timer.
GetNewCount ==
  /\ pc = "newCount"
  /\ \/ /\ successCount' = successCount + 1
        /\ outcome' = [outcome EXCEPT ![i] = "success"]
        /\ counted' = [gasUsed |-> counted.gasUsed + receipt[1].gasUsed,
                       gasCost |-> counted.gasCost + receipt[1].gasCost]
        /\ IF NotLast(i)
             THEN /\ \E r1 \in RandomValues : delay' = Some(RandomDelayMs(r1))
                  /\ \E r2 \in RandomValues :
                       timer' = [kind |-> "random", ms |-> RandomDelayMs(r2)]
                  /\ pc' = "randomDelay"
                  /\ UNCHANGED << i, tx, receipt, atStart >>
             ELSE /\ i' = i + 1
                  /\ pc' = "loop"
                  /\ tx' = None
                  /\ receipt' = None
                  /\ atStart' = [gasUsed |-> totalGasUsed, gasCost |-> totalGasCost]
                  /\ UNCHANGED << delay, timer >>
        /\ UNCHANGED << exitCode, fatal, failCount, sleeps >>
     \/ Catch /\ UNCHANGED << tx, receipt, delay, atStart, counted >>
  /\ UNCHANGED << envVars, provider, balance, initialCount, finalCount,
                  totalGasUsed, totalGasCost, chainVars, reportVars >>

\* lines 117-119 and 84: the random delay elapses, next iteration
RandomDelayDone ==
  /\ pc = "randomDelay"
  /\ timer.kind = "random"
  /\ sleeps' = [sleeps EXCEPT ![i] = Append(@, "random")]
  /\ timer' = NoTimer
  /\ delay' = None
  /\ tx' = None
  /\ receipt' = None
  /\ i' = i + 1
  /\ atStart' = [gasUsed |-> totalGasUsed, gasCost |-> totalGasCost]
  /\ pc' = "loop"
  /\ UNCHANGED << envVars, provider, exitCode, fatal, balance, initialCount,
                  finalCount, statVars, chainVars, outcome, counted,
                  reportVars >>

\* lines 127-129 and 84: the fixed backoff elapses, next iteration
BackoffDone ==
  /\ pc = "backoff"
  /\ timer.kind = "backoff"
  /\ sleeps' = [sleeps EXCEPT ![i] = Append(@, "backoff")]
  /\ timer' = NoTimer
  /\ delay' = None
  /\ tx' = None
  /\ receipt' = None
  /\ i' = i + 1
  /\ atStart' = [gasUsed |-> totalGasUsed, gasCost |-> totalGasCost]
  /\ pc' = "loop"
  /\ UNCHANGED << envVars, provider, exitCode, fatal, balance, initialCount,
                  finalCount, statVars, chainVars, outcome, counted,
                  reportVars >>

\* lines 137-152: the final counter read and the report up to the averages
GetFinalCount ==
  /\ pc = "finalCount"
  /\ \/ /\ finalCount' = Some(count)
        /\ avgGas' = Some(Average(totalGasUsed, successCount))
        /\ avgCost' = Some(Average(totalGasCost, successCount))
        /\ pc' = "finalBalance"
        /\ UNCHANGED << exitCode, fatal >>
     \/ MainCatch("finalCount") /\ UNCHANGED << finalCount, reportVars >>
  /\ UNCHANGED << envVars, provider, balance, initialCount, i, statVars,
                  tx, receipt, delay, timer, chainVars, histVars >>

\* lines 154-160: the final balance read; main() returns and the process
\* ends with code 0
GetFinalBalance ==
  /\ pc = "finalBalance"
  /\ \/ /\ pc' = "exited"
        /\ exitCode' = Some(0)
        /\ UNCHANGED fatal
     \/ MainCatch("finalBalance")
  /\ UNCHANGED << envVars, provider, balance, initialCount, finalCount, i,
                  statVars, tx, receipt, delay, timer, chainVars, histVars,
                  reportVars >>

\* the chain mines the oldest outstanding transaction of the wallet (nonce
\* order); increment() either takes effect or reverts
Mine ==
  /\ Outstanding # {}
  /\ LET a == CHOOSE x \in Outstanding : \A y \in Outstanding : x <= y
     IN \/ /\ txs' = [txs EXCEPT ![a] = "confirmed"]
           /\ count' = count + 1
        \/ /\ txs' = [txs EXCEPT ![a] = "reverted"]
           /\ UNCHANGED count
  /\ UNCHANGED << pc, envVars, provider, exitCode, fatal, balance,
                  initialCount, finalCount, i, statVars, tx, receipt, delay,
                  timer, external, histVars, reportVars >>

\* another party calls increment() or decrement() on the contract
ExternalChange ==
  /\ external < MaxExternal
  /\ pc # "exited"
  /\ external' = external + 1
  /\ \/ count' = count + 1
     \/ count > 0 /\ count' = count - 1
  /\ UNCHANGED << pc, envVars, provider, exitCode, fatal, balance,
                  initialCount, finalCount, i, statVars, tx, receipt, delay,
                  timer, txs, histVars, reportVars >>

Runner ==
  \/ ValidateConfig
  \/ GetBalance
  \/ GetInitialCount
  \/ LoopTest
  \/ GetCurrentCount
  \/ Increment
  \/ Wait
  \/ GetNewCount
  \/ RandomDelayDone
  \/ BackoffDone
  \/ GetFinalCount
  \/ GetFinalBalance

Next == Runner \/ Mine \/ ExternalChange

Spec == Init /\ [][Next]_vars

\* every RPC call and timer eventually returns, and the chain keeps mining
FairSpec == Spec /\ WF_vars(Runner) /\ WF_vars(Mine)

\* ------------------------------------------------------------------ claims
InAttempt == pc \in {"getCount", "increment", "wait", "newCount"}
AttemptEnded == pc \in {"randomDelay", "backoff"}
AfterLoop == pc \in {"finalCount", "finalBalance"}
PassedChecks == balance # None /\ balance[1] > 0
BackoffSleeps == {a \in Attempts : \E k \in 1 .. Len(sleeps[a]) : sleeps[a][k] = "backoff"}

\* C1: at every iteration boundary successCount + failCount is the number
\* of attempts completed so far (i - 1 before and during attempt i, i once
\* attempt i has ended and its sleep is pending), and it is INCREMENT_COUNT
\* when the loop has completed.
C1_CountsMatchAttempts ==
  /\ (pc = "loop" \/ InAttempt) => successCount + failCount = i - 1
  /\ AttemptEnded => successCount + failCount = i
  /\ AfterLoop => successCount + failCount = INCREMENT_COUNT
  /\ (pc = "exited" /\ exitCode = Some(0)) => successCount + failCount = INCREMENT_COUNT

C1_Witness ==
  pc = "finalCount" /\ successCount > 0 /\ failCount > 0

\* C2 (as claimed): an attempt that ends by incrementing failCount leaves
\* totalGasUsed and totalGasCost at the values they had when it started.
C2_FailedAttemptKeepsGasTotals ==
  pc = "backoff" =>
    /\ totalGasUsed = atStart.gasUsed
    /\ totalGasCost = atStart.gasCost

\* C3 (as claimed): with no other party changing the counter, the reported
\* finalCount - initialCount is the number of this run's transactions
\* confirmed on chain, and that number is successCount (taken at the report,
\* with no transaction of the run still in flight).
C3_DifferenceEqualsSuccessCount ==
  (pc = "finalBalance" /\ external = 0 /\ Outstanding = {}) =>
    /\ finalCount[1] - initialCount[1] = Cardinality(Confirmed)
    /\ Cardinality(Confirmed) = successCount

\* C4 (as claimed): at most one transaction of the runner is submitted and
\* not yet mined at any time.
C4_AtMostOneOutstanding ==
  Cardinality(Outstanding) <= 1

\* C5: a zero starting balance ends the process with exit code 1 before the
\* loop: no counter read, no submission, no attempt, all statistics zero.
C5_ZeroBalanceStopsRun ==
  balance = Some(0) =>
    /\ pc = "exited"
    /\ exitCode = Some(1)
    /\ initialCount = None
    /\ i = 0
    /\ Submitted = {}
    /\ \A a \in Attempts : outcome[a] = "none"
    /\ successCount = 0 /\ failCount = 0
    /\ totalGasUsed = 0 /\ totalGasCost = 0

C5_Witness ==
  balance = Some(0) /\ pc = "exited"

\* C6: with PRIVATE_KEY or COUNTER_ADDRESS absent or empty, the provider
\* (with wallet and contract) is never created, no request is sent, no
\* transaction is submitted, and once validation has run the process has
\* ended with exit code 1.
C6_MissingConfigExits ==
  (\/ PRIVATE_KEY \in {"absent", "empty"}
   \/ COUNTER_ADDRESS \in {"absent", "empty"}) =>
    /\ provider = "absent"
    /\ balance = None
    /\ initialCount = None
    /\ Submitted = {}
    /\ pc # "start" => (pc = "exited" /\ exitCode = Some(1))

C6_Witness ==
  /\ PRIVATE_KEY = "present"
  /\ COUNTER_ADDRESS = "empty"
  /\ pc = "exited"

\* C7 (as claimed): a run that passed its precondition checks ends with
\* exit code 0.
C7_PassedChecksExitZero ==
  (pc = "exited" /\ PassedChecks) => exitCode = Some(0)

\* C7 (amended): a run that passed its precondition checks ends with exit
\* code 0 whatever the number of failed attempts, unless a read outside the
\* loop (initial counter, final counter, final balance) raised, in which
\* case it ends with exit code 1.
C7_ExitZeroUnlessOutsideReadRaises ==
  (pc = "exited" /\ PassedChecks) =>
    IF fatal \in {"initialCount", "finalCount", "finalBalance"}
      THEN exitCode = Some(1)
      ELSE exitCode = Some(0) /\ fatal = "none"

C7_Witness ==
  pc = "exited" /\ exitCode = Some(0) /\ failCount = INCREMENT_COUNT

\* C8: once the loop has started, whatever errors the attempts raise, the
\* run eventually reaches the final-report phase with all INCREMENT_COUNT
\* attempts processed and every failure counted.
C8_LoopReachesReport ==
  (pc = "loop" \/ InAttempt \/ AttemptEnded) ~>
    (/\ pc = "finalCount"
     /\ i = INCREMENT_COUNT + 1
     /\ successCount + failCount = INCREMENT_COUNT
     /\ failCount = Cardinality({a \in Attempts : outcome[a] = "fail"}))

C8_Witness ==
  /\ pc = "finalCount"
  /\ failCount = INCREMENT_COUNT
  /\ i = INCREMENT_COUNT + 1

\* C9: every failed attempt, the last one included, is followed by exactly
\* one sleep, the fixed backoff of 5000 ms, taken before the index
\* advances, and by no random delay; outside a pending backoff the number
\* of backoff sleeps equals failCount.
C9_BackoffOncePerFailure ==
  /\ \A a \in Attempts : outcome[a] = "fail" =>
       \/ /\ i = a
          /\ pc = "backoff"
          /\ timer = [kind |-> "backoff", ms |-> 5000]
          /\ sleeps[a] = << >>
       \/ /\ i > a
          /\ sleeps[a] = << "backoff" >>
  /\ pc # "backoff" => Cardinality(BackoffSleeps) = failCount

C9_Witness ==
  /\ outcome[INCREMENT_COUNT] = "fail"
  /\ sleeps[INCREMENT_COUNT] = << "backoff" >>
  /\ pc = "finalCount"

\* C10: every successful attempt before the last is followed by exactly
\* one sleep, of an integer duration in MIN_DELAY..MAX_DELAY, taken before
\* the index advances; a successful last attempt is followed by no sleep;
\* no fixed backoff follows a successful attempt.
C10_RandomDelayAfterSuccess ==
  \A a \in Attempts : outcome[a] = "success" =>
    IF a < INCREMENT_COUNT
      THEN \/ /\ i = a
              /\ pc = "randomDelay"
              /\ timer.kind = "random"
              /\ timer.ms \in 1000 .. 3000
              /\ sleeps[a] = << >>
           \/ /\ i > a
              /\ sleeps[a] = << "random" >>
      ELSE /\ sleeps[a] = << >>
           /\ timer = NoTimer
           /\ i = INCREMENT_COUNT + 1

C10_Witness ==
  /\ outcome[1] = "success"
  /\ sleeps[1] = << "random" >>
  /\ outcome[INCREMENT_COUNT] = "success"
  /\ pc = "finalCount"

\* C11: the reported averages are defined for every run: zero when
\* successCount is 0, otherwise the integer quotients of the totals by
\* successCount.
C11_AveragesWellDefined ==
  avgGas # None =>
    /\ avgCost # None
    /\ successCount = 0 => (avgGas = Some(0) /\ avgCost = Some(0))
    /\ successCount > 0 =>
         /\ avgGas = Some(totalGasUsed \div successCount)
         /\ avgCost = Some(totalGasCost \div successCount)

C11_Witness ==
  /\ pc = "finalBalance"
  /\ successCount = 0
  /\ totalGasUsed > 0
  /\ avgGas = Some(0)

\* C12 (as claimed): after the loop totalGasUsed is the sum of the receipts'
\* gasUsed over exactly the attempts counted in successCount, and
\* totalGasCost the sum of their gasUsed * gasPrice.
C12_TotalsSumOverSuccesses ==
  AfterLoop =>
    /\ totalGasUsed = counted.gasUsed
    /\ totalGasCost = counted.gasCost

\* C13: totalGasUsed and totalGasCost are never negative and no step of
\* the run decreases them.
C13_GasTotalsMonotonic ==
  /\ [](totalGasUsed >= 0 /\ totalGasCost >= 0)
  /\ [][totalGasUsed' >= totalGasUsed /\ totalGasCost' >= totalGasCost]_vars

C13_Witness ==
  /\ pc = "finalCount"
  /\ failCount > 0
  /\ totalGasUsed >= 2 * 21000
  /\ totalGasCost > totalGasUsed

\* C14 (as claimed): an attempt for which tx.wait() returned a receipt ends
\* as a success, never in failCount, whatever its remaining steps do.
C14_ConfirmedAttemptCountsAsSuccess ==
  (receipt # None /\ pc # "newCount") =>
    /\ outcome[i] = "success"
    /\ pc # "backoff"

\* C15 (as claimed): the cost of an attempt is gasUsed times the receipt's
\* gas price whenever the receipt reports one (0 included), and gasUsed
\* times the transaction's own gas price only when the receipt omits it.
C15_ReceiptPriceUsedWhenReported ==
  receipt # None =>
    receipt[1].gasCost =
      receipt[1].gasUsed *
        (IF receipt[1].gasPrice # None THEN receipt[1].gasPrice[1] ELSE tx[1])

\* C16: an attempt index submits at most one transaction and only inside
\* 1..INCREMENT_COUNT: nothing is submitted for an index before its own
\* increment() call, an index that has ended is never entered again, an
\* attempt that has no tx object has nothing on chain, and after the loop
\* the index is past INCREMENT_COUNT.
C16_AtMostOneSubmissionPerAttempt ==
  /\ Cardinality(Submitted) <= INCREMENT_COUNT
  /\ (InAttempt \/ AttemptEnded) => i \in Attempts
  /\ AfterLoop => i = INCREMENT_COUNT + 1
  /\ \A a \in Attempts : a > i => (txs[a] = "none" /\ outcome[a] = "none")
  /\ \A a \in Attempts : outcome[a] # "none" =>
       (i > a \/ (i = a /\ AttemptEnded))
  /\ pc \in {"loop", "getCount", "increment"} =>
       (tx = None /\ (i \in Attempts => txs[i] = "none"))
  /\ (InAttempt \/ AttemptEnded) => (tx = None <=> txs[i] = "none")

C16_Witness ==
  /\ pc = "finalCount"
  /\ outcome[1] = "fail" /\ txs[1] = "none"
  /\ txs[2] # "none"
  /\ outcome[INCREMENT_COUNT] = "fail" /\ txs[INCREMENT_COUNT] # "none"

\* C17: an error of the initial balance read, the initial counter read,
\* the final counter read or the final balance read ends the process with
\* exit code 1; after an error of one of the two initial reads no
\* transaction was submitted and no attempt was made.
C17_OutsideErrorsAreFatal ==
  /\ fatal \in {"getBalance", "initialCount", "finalCount", "finalBalance"} =>
       (pc = "exited" /\ exitCode = Some(1))
  /\ fatal \in {"getBalance", "initialCount"} =>
       (Submitted = {} /\ i = 0 /\ successCount = 0 /\ failCount = 0)
  /\ (pc = "exited" /\ exitCode = Some(0)) => fatal = "none"

C17_Witness ==
  /\ fatal = "finalCount"
  /\ pc = "exited"
  /\ Submitted # {}

\* C18: while no other party has changed the counter, successCount is at
\* most the number of increments the chain has applied since the initial
\* read, all of them transactions of this run.
C18_SuccessesAreOnChain ==
  (external = 0 /\ initialCount # None) =>
    /\ successCount <= count - initialCount[1]
    /\ count - initialCount[1] = Cardinality(Confirmed)

C18_Witness ==
  /\ external = 0
  /\ pc = "finalBalance"
  /\ successCount = INCREMENT_COUNT - 1
  /\ \E a \in Attempts : txs[a] = "reverted"

\* C19 (as claimed): the wait announced before the inter-attempt sleep is
\* the duration of the sleep that randomDelay() then performs.
C19_AnnouncedDelayIsSlept ==
  pc = "randomDelay" => delay = Some(timer.ms)
====
